---- MODULE Spec2Model ----
(***************************************************************************)
(* Question-to-query interpreter and query executor of                     *)
(* question_4_genai/GenAI.py.                                              *)
(*                                                                         *)
(* Text is a sequence of one-character strings, so that substring search,  *)
(* tokenising, case folding, JSON encoding and JSON decoding are computed  *)
(* character by character as the Python code computes them.                *)
(***************************************************************************)
EXTENDS Integers, Sequences, FiniteSets, TLC

\* ------------------------------------------------------------------------
\* Bounds of the model
\* ------------------------------------------------------------------------
MaxRows == 2
MaxPieces == 2

\* ------------------------------------------------------------------------
\* Python str primitives
\* ------------------------------------------------------------------------
UpperLetters == <<"A","B","C","D","E","F","G","H","I","J","K","L","M","N","O","P","Q","R","S","T",
      "U","V","W","X","Y","Z">>
LowerLetters == <<"a","b","c","d","e","f","g","h","i","j","k","l","m","n","o","p","q","r","s","t",
      "u","v","w","x","y","z">>
DigitChars == {"0","1","2","3","4","5","6","7","8","9"}
UpperSet == {UpperLetters[i] : i \in 1..26}
LowerSet == {LowerLetters[i] : i \in 1..26}

\* the character classes of the regular expressions [a-z0-9], [A-Za-z0-9], \w
LowerAlnum == LowerSet \cup DigitChars
Alnum == UpperSet \cup LowerSet \cup DigitChars
WordChars == Alnum \cup {"_"}
Whitespace == {" ", "\n", "\t", "\r"}

\* the lower-case letter of each upper-case letter
LowerOf == [c \in UpperSet |-> LowerLetters[CHOOSE i \in 1..26 : UpperLetters[i] = c]]

LowerChar(c) == IF c \in UpperSet THEN LowerOf[c] ELSE c

\* str.lower()
Lower(s) == [i \in 1..Len(s) |-> LowerChar(s[i])]

\* needle in hay
Contains(hay, needle) ==
    \E i \in 0..(Len(hay) - Len(needle)) :
        \A k \in 1..Len(needle) : hay[i + k] = needle[k]

\* str.strip()
RECURSIVE LStripIdx(_, _)
LStripIdx(s, i) ==
    IF i <= Len(s) /\ s[i] \in Whitespace THEN LStripIdx(s, i + 1) ELSE i
RECURSIVE RStripIdx(_, _)
RStripIdx(s, j) ==
    IF j >= 1 /\ s[j] \in Whitespace THEN RStripIdx(s, j - 1) ELSE j
Strip(s) == SubSeq(s, LStripIdx(s, 1), RStripIdx(s, Len(s)))

\* re.findall(r"[cls]+", s): the maximal runs of characters of cls, in order
RECURSIVE RunEnd(_, _, _)
RunEnd(s, i, cls) ==
    IF i < Len(s) /\ s[i + 1] \in cls THEN RunEnd(s, i + 1, cls) ELSE i
RECURSIVE FindAllFrom(_, _, _)
FindAllFrom(s, i, cls) ==
    IF i > Len(s) THEN <<>>
    ELSE IF s[i] \in cls
         THEN LET j == RunEnd(s, i, cls)
              IN  <<SubSeq(s, i, j)>> \o FindAllFrom(s, j + 1, cls)
         ELSE FindAllFrom(s, i + 1, cls)
FindAll(s, cls) == FindAllFrom(s, 1, cls)

SeqToSet(seq) == {seq[i] : i \in 1..Len(seq)}

\* " ".join(parts)
RECURSIVE JoinSpace(_)
JoinSpace(parts) ==
    IF Len(parts) = 0 THEN <<>>
    ELSE IF Len(parts) = 1 THEN parts[1]
    ELSE parts[1] \o <<" ">> \o JoinSpace(Tail(parts))

\* parts[:n] in place of parts[-n:]
HeadN(parts, n) == IF Len(parts) <= n THEN parts ELSE SubSeq(parts, 1, n)

\* parts[-n:]
LastN(parts, n) ==
    IF Len(parts) <= n THEN parts ELSE SubSeq(parts, Len(parts) - n + 1, Len(parts))

\* ------------------------------------------------------------------------
\* Schema
\* ------------------------------------------------------------------------
USUBJID == <<"U","S","U","B","J","I","D">>
AETERM == <<"A","E","T","E","R","M">>
AESOC == <<"A","E","S","O","C">>
AESEV == <<"A","E","S","E","V">>
AEDECOD == <<"A","E","D","E","C","O","D">>

SCHEMA ==
    (USUBJID :> <<"U","n","i","q","u","e"," ","s","u","b","j","e","c","t"," ","i","d"," ","(","R",
          "E","T","U","R","N"," ","O","N","L","Y",";"," ","d","o"," ","n","o","t"," ","c","h","o",
          "o","s","e"," ","a","s"," ","a"," ","f","i","l","t","e","r"," ","c","o","l","u","m","n",
          ")">>)
    @@ (AETERM :> <<"A","d","v","e","r","s","e"," ","e","v","e","n","t"," ","t","e","r","m"," ","(",
          "e",".","g",".",","," ","H","e","a","d","a","c","h","e",","," ","F","a","t","i","g","u",
          "e",")">>)
    @@ (AESOC :> <<"B","o","d","y"," ","s","y","s","t","e","m"," ","/"," ","S","y","s","t","e","m",
          " ","O","r","g","a","n"," ","C","l","a","s","s"," ","(","e",".","g",".",","," ","S","k",
          "i","n",","," ","C","a","r","d","i","a","c",","," ","E","y","e"," ","d","i","s","o","r",
          "d","e","r","s",")">>)
    @@ (AESEV :> <<"S","e","v","e","r","i","t","y"," ","/"," ","i","n","t","e","n","s","i","t","y",
          " ","(","e",".","g",".",","," ","M","I","L","D",","," ","M","O","D","E","R","A","T","E",
          ","," ","S","E","V","E","R","E",")">>)
    @@ (AEDECOD :> <<"D","i","c","t","i","o","n","a","r","y","-","d","e","r","i","v","e","d"," ",
          "t","e","r","m"," ","(","c","o","d","e","d",")">>)

\* list(SCHEMA.keys()), in declaration order
MAPPABLE_COLS == <<USUBJID, AETERM, AESOC, AESEV, AEDECOD>>


\* the columns _mock_llm scores: [c for c in MAPPABLE_COLS if c != "USUBJID"]
cols_to_score == SelectSeq(MAPPABLE_COLS, LAMBDA c : c /= USUBJID)

\* the cap on the candidate values of _mock_llm, sorted(...)[:5000]
VALUE_CAP == 5000

\* ------------------------------------------------------------------------
\* Dataset (pandas DataFrame): a sequence of rows, each row a function from
\* column name to cell; a cell is either missing (NaN) or a text
\* ------------------------------------------------------------------------
NaN == [na |-> TRUE, text |-> <<>>]
Cell(t) == [na |-> FALSE, text |-> t]

Row(usubjid, aeterm, aesoc, aesev, aedecod) ==
    (USUBJID :> usubjid) @@ (AETERM :> aeterm) @@ (AESOC :> aesoc)
    @@ (AESEV :> aesev) @@ (AEDECOD :> aedecod)

\* df[col]
Column(df, col) == [i \in 1..Len(df) |-> df[i][col]]

\* Series.dropna()
DropNa(cells) == SelectSeq(cells, LAMBDA c : ~c.na)

\* Series.astype(str): text stays text; what a missing value becomes depends
\* on the pandas build: the text "nan" (object columns, pandas before 3.0)
\* or still missing (string columns of pandas 3.0)
AsType_str(cells, nan_as_text) ==
    [i \in 1..Len(cells) |->
        IF cells[i].na /\ nan_as_text THEN Cell(<<"n","a","n">>) ELSE cells[i]]

\* the texts of a series without missing values
Texts(cells) == [i \in 1..Len(cells) |-> cells[i].text]

\* no de-duplication
KeepAll(seq) == seq

\* Series.unique(): first occurrences, in order
RECURSIVE Unique(_)
Unique(seq) ==
    IF seq = <<>> THEN <<>>
    ELSE LET r == Unique(SubSeq(seq, 1, Len(seq) - 1))
             x == seq[Len(seq)]
         IN  IF x \in SeqToSet(r) THEN r ELSE Append(r, x)

\* the values in dataset order, unsorted
Unsorted(vals) == vals

\* sorted(vals, key=len, reverse=True): stable, longest first
RECURSIVE InsertByLen(_, _)
InsertByLen(sorted, x) ==
    IF sorted = <<>> THEN <<x>>
    ELSE IF Len(sorted[1]) >= Len(x)
         THEN <<sorted[1]>> \o InsertByLen(Tail(sorted), x)
         ELSE <<x>> \o sorted
RECURSIVE SortedByLenDesc(_)
SortedByLenDesc(vals) ==
    IF vals = <<>> THEN <<>>
    ELSE InsertByLen(SortedByLenDesc(SubSeq(vals, 1, Len(vals) - 1)), vals[Len(vals)])

\* vals[:n]
FirstN(vals, n) == IF Len(vals) <= n THEN vals ELSE SubSeq(vals, 1, n)

\* ------------------------------------------------------------------------
\* json.dumps of the two-key dict, and json.loads
\* ------------------------------------------------------------------------
JsonEscapeChar(c) ==
    IF c = "\"" THEN <<"\\", "\"">>
    ELSE IF c = "\\" THEN <<"\\", "\\">>
    ELSE IF c = "\n" THEN <<"\\", "n">>
    ELSE IF c = "\t" THEN <<"\\", "t">>
    ELSE IF c = "\r" THEN <<"\\", "r">>
    ELSE <<c>>

RECURSIVE JsonEscape(_)
JsonEscape(s) ==
    IF s = <<>> THEN <<>> ELSE JsonEscapeChar(Head(s)) \o JsonEscape(Tail(s))

JsonString(s) == <<"\"">> \o JsonEscape(s) \o <<"\"">>

\* json.dumps({"target_column": col, "filter_value": val})
JsonDumps(col, val) ==
    <<"{">> \o JsonString(<<"t","a","r","g","e","t","_","c","o","l","u","m","n">>) \o <<":", " "
          >> \o JsonString(col)
    \o <<",", " ">> \o JsonString(<<"f","i","l","t","e","r","_","v","a","l","u","e">>) \o <<":", " "
          >> \o JsonString(val)
    \o <<"}">>

\* json.loads on the JSON values the responses use: strings, and objects
\* whose member values are strings or objects.  A decoded string is
\* [kind |-> "str", text |-> ...]; a decoded object is [kind |-> "obj",
\* members |-> the sequence of <<key, value>> pairs in document order].
JsonFail == [ok |-> FALSE, val |-> [kind |-> "none"], next |-> 0]

RECURSIVE SkipWs(_, _)
SkipWs(s, i) == IF i <= Len(s) /\ s[i] \in Whitespace THEN SkipWs(s, i + 1) ELSE i

Unescape(c) ==
    IF c = "n" THEN "\n" ELSE IF c = "t" THEN "\t" ELSE IF c = "r" THEN "\r" ELSE c

\* scans a string body from s[i] (after the opening quote)
RECURSIVE ScanString(_, _, _)
ScanString(s, i, acc) ==
    IF i > Len(s) THEN JsonFail
    ELSE IF s[i] = "\""
         THEN [ok |-> TRUE, val |-> [kind |-> "str", text |-> acc], next |-> i + 1]
    ELSE IF s[i] = "\\"
         THEN IF i + 1 <= Len(s) /\ s[i + 1] \in {"\"", "\\", "/", "n", "t", "r"}
              THEN ScanString(s, i + 2, Append(acc, Unescape(s[i + 1])))
              ELSE JsonFail
    ELSE IF s[i] \in {"\n", "\t", "\r"} THEN JsonFail
    ELSE ScanString(s, i + 1, Append(acc, s[i]))

RECURSIVE ParseValue(_, _)
RECURSIVE ParseMembers(_, _, _)
ParseMembers(s, i, members) ==
    IF i > Len(s) \/ s[i] /= "\"" THEN JsonFail
    ELSE LET key == ScanString(s, i + 1, <<>>)
         IN  IF ~key.ok THEN JsonFail
             ELSE LET c == SkipWs(s, key.next)
                  IN  IF c > Len(s) \/ s[c] /= ":" THEN JsonFail
                      ELSE LET v == ParseValue(s, SkipWs(s, c + 1))
                           IN  IF ~v.ok THEN JsonFail
                               ELSE LET e == SkipWs(s, v.next)
                                        ms == Append(members, <<key.val.text, v.val>>)
                                    IN  IF e > Len(s) THEN JsonFail
                                        ELSE IF s[e] = ","
                                             THEN ParseMembers(s, SkipWs(s, e + 1), ms)
                                        ELSE IF s[e] = "}"
                                             THEN [ok |-> TRUE,
                                                   val |-> [kind |-> "obj", members |-> ms],
                                                   next |-> e + 1]
                                        ELSE JsonFail

ParseValue(s, i) ==
    IF i > Len(s) THEN JsonFail
    ELSE IF s[i] = "\"" THEN ScanString(s, i + 1, <<>>)
    ELSE IF s[i] = "{"
         THEN LET j == SkipWs(s, i + 1)
              IN  IF j <= Len(s) /\ s[j] = "}"
                  THEN [ok |-> TRUE, val |-> [kind |-> "obj", members |-> <<>>],
                        next |-> j + 1]
                  ELSE ParseMembers(s, j, <<>>)
    ELSE JsonFail

\* json.loads(s): [ok |-> FALSE] stands for json.JSONDecodeError
JsonLoads(s) ==
    LET v == ParseValue(s, SkipWs(s, 1))
    IN  IF v.ok /\ SkipWs(s, v.next) = Len(s) + 1 THEN v ELSE JsonFail

\* obj.get(key, ""): the value of the last member named key
RECURSIVE DictGet(_, _, _)
DictGet(members, key, default) ==
    IF members = <<>> THEN default
    ELSE LET last == members[Len(members)]
         IN  IF last[1] = key THEN last[2]
             ELSE DictGet(SubSeq(members, 1, Len(members) - 1), key, default)

\* str(x) of a decoded value: a string is itself; of a dict only the braces
\* of its repr are modelled, which is all the column test depends on
PyStr(v) == IF v.kind = "str" THEN v.text ELSE <<"{", "}">>


\* ------------------------------------------------------------------------
\* ClinicalTrialDataAgent._mock_llm
\* ------------------------------------------------------------------------
\* set(re.findall(r"[a-z0-9]+", (col + " " + desc).lower()))
\* (one table for the four columns: the token sets do not depend on the question)
schema_tokens ==
    [col \in SeqToSet(cols_to_score) |->
        SeqToSet(FindAll(Lower(col \o <<" ">> \o SCHEMA[col]), LowerAlnum))]

stok(col) == schema_tokens[col]

\* len(qtok & stok) + (2 if col.lower() in q else 0)
Score(q, qtok, col) ==
    Cardinality(qtok \cap stok(col)) + (IF Contains(q, Lower(col)) THEN 2 ELSE 0)

\* score >= best_score in place of score > best_score
ImprovesOrTies(score, best_score) == score >= best_score

\* if score > best_score
Improves(score, best_score) == score > best_score

\* the for loop over cols_to_score, from its i-th column on
RECURSIVE ScoreLoop(_, _, _, _, _)
ScoreLoop(q, qtok, i, best_col, best_score) ==
    IF i > Len(cols_to_score) THEN best_col
    ELSE LET col == cols_to_score[i]
             score == Score(q, qtok, col)
         IN  IF Improves(score, best_score)
             THEN ScoreLoop(q, qtok, i + 1, col, score)
             ELSE ScoreLoop(q, qtok, i + 1, best_col, best_score)

BestCol(question) ==
    LET q == Lower(question)
        qtok == SeqToSet(FindAll(q, LowerAlnum))
    IN  ScoreLoop(q, qtok, 1, AETERM, -1)

\* df[best_col].dropna().astype(str).unique().tolist(), then
\* sorted(vals, key=len, reverse=True)[:5000]
CandidateVals(df, col) ==
    FirstN(SortedByLenDesc(Unique(Texts(DropNa(Column(df, col))))), VALUE_CAP)

\* next((v for v in vals if v.lower() in q), "")
RECURSIVE FirstOccurring(_, _)
FirstOccurring(vals, q) ==
    IF vals = <<>> THEN <<>>
    ELSE IF Contains(q, Lower(Head(vals))) THEN Head(vals)
    ELSE FirstOccurring(Tail(vals), q)

\* re.search(r'"([^"]+)"', s): the leftmost quote that is followed by at
\* least one non-quote character and then a quote
QuotedSearch(s) ==
    LET quotes == {i \in 1..Len(s) : s[i] = "\""}
        closes(i) == {j \in quotes : j > i + 1 /\ \A k \in (i + 1)..(j - 1) : s[k] /= "\""}
        starts == {i \in quotes : closes(i) /= {}}
    IN  IF starts = {} THEN [found |-> FALSE, group1 |-> <<>>]
        ELSE LET i == CHOOSE a \in starts : \A b \in starts : a <= b
                 j == CHOOSE c \in closes(i) : TRUE
             IN  [found |-> TRUE, group1 |-> SubSeq(s, i + 1, j - 1)]

\* " ".join(re.findall(r"[A-Za-z0-9]+", question)[-3:])
TailTokens(question) == JoinSpace(LastN(FindAll(question, Alnum), 3))

mock_llm(df, question) ==
    LET q == Lower(question)
        best_col == BestCol(question)
        found == FirstOccurring(CandidateVals(df, best_col), q)
        m == QuotedSearch(question)
        val == IF found /= <<>> THEN found
               ELSE IF m.found THEN m.group1
               ELSE TailTokens(question)
    IN  [called |-> TRUE, best_col |-> best_col, filter_value |-> val,
         text |-> JsonDumps(best_col, val)]

\* ------------------------------------------------------------------------
\* ClinicalTrialDataAgent.parse_question
\* ------------------------------------------------------------------------
\* the lazy pattern \{.*?\}: from the first "{" to the first "}" after it
BraceSearchLazy(raw) ==
    LET opens == {i \in 1..Len(raw) : raw[i] = "{"}
        closes == {i \in 1..Len(raw) : raw[i] = "}"}
    IN  IF opens = {} THEN [found |-> FALSE, group0 |-> <<>>]
        ELSE LET i == CHOOSE a \in opens : \A b \in opens : a <= b
                 after == {j \in closes : j > i}
             IN  IF after = {} THEN [found |-> FALSE, group0 |-> <<>>]
                 ELSE LET j == CHOOSE a \in after : \A b \in after : a <= b
                      IN  [found |-> TRUE, group0 |-> SubSeq(raw, i, j)]

\* re.search(r"\{.*\}", raw, flags=re.S): greedy, from the first "{" to the
\* last "}" after it
BraceSearch(raw) ==
    LET opens == {i \in 1..Len(raw) : raw[i] = "{"}
        closes == {i \in 1..Len(raw) : raw[i] = "}"}
    IN  IF opens = {} THEN [found |-> FALSE, group0 |-> <<>>]
        ELSE LET i == CHOOSE a \in opens : \A b \in opens : a <= b
                 after == {j \in closes : j > i}
             IN  IF after = {} THEN [found |-> FALSE, group0 |-> <<>>]
                 ELSE LET j == CHOOSE a \in after : \A b \in after : a >= b
                      IN  [found |-> TRUE, group0 |-> SubSeq(raw, i, j)]

\* json.loads(raw) whatever the search found
PayloadRaw(raw) == raw

\* the text handed to json.loads: m.group(0) if m else raw
Payload(raw) == LET m == BraceSearch(raw) IN IF m.found THEN m.group0 ELSE raw

\* re.search(r"\bword\b", s, re.I) for a word that starts and ends with a
\* word character
WordSearch(s, word) ==
    LET ls == Lower(s)
        n == Len(word)
    IN  \E i \in 0..(Len(s) - n) :
            /\ \A k \in 1..n : ls[i + k] = word[k]
            /\ (i = 0 \/ s[i] \notin WordChars)
            /\ (i + n = Len(s) \/ s[i + n + 1] \notin WordChars)

\* the check of the question left out
AnyQuestion(question) == TRUE

\* re.search(r"\b(usubjid|subject id)\b", question, re.I)
ExplicitSubjectId(question) ==
    WordSearch(question, <<"u","s","u","b","j","i","d">>) \/ WordSearch(question, <<"s","u","b","j",
          "e","c","t"," ","i","d">>)

NoMock == [called |-> FALSE, best_col |-> <<>>, filter_value |-> <<>>, text |-> <<>>]
Raised(exc) == [status |-> exc, target_column |-> <<>>, filter_value |-> <<>>]

\* the post-validation of the decoded object, lines 61-73
Validate(question, members) ==
    LET empty == [kind |-> "str", text |-> <<>>]
        col0 == Strip(PyStr(DictGet(members, <<"t","a","r","g","e","t","_","c","o","l","u","m","n"
              >>, empty)))
        val == Strip(PyStr(DictGet(members, <<"f","i","l","t","e","r","_","v","a","l","u","e"
              >>, empty)))
        col1 == IF col0 \notin SeqToSet(MAPPABLE_COLS) THEN AETERM ELSE col0
        col == IF col1 = USUBJID /\ ~ExplicitSubjectId(question) THEN AETERM ELSE col1
    IN  [status |-> "ok", target_column |-> col, filter_value |-> val]

\* the decode and post-validation of a raw response, lines 58-73
Interpret(question, raw) ==
    LET obj == JsonLoads(Payload(raw))
    IN  IF ~obj.ok THEN Raised("JSONDecodeError")
        ELSE IF obj.val.kind /= "obj" THEN Raised("AttributeError")
        ELSE Validate(question, obj.val.members)

\* _call_llm: llm.invoke(prompt).content.strip(); llm is the outcome of the
\* collaborator, either an exception or the content of its reply
call_llm(llm) == Strip(llm.content)

\* ------------------------------------------------------------------------
\* execute
\* ------------------------------------------------------------------------
\* Series.str.lower().eq(x) on one cell
StrLowerEq(cell, x) == ~cell.na /\ Lower(cell.text) = x

\* Series.str.contains(re.escape(pat), case=False, na=na) on one cell: the
\* escaped pattern matches pat literally
StrContains(cell, pat, na) ==
    IF cell.na THEN na ELSE Contains(Lower(cell.text), Lower(pat))

\* set(df[target_column].dropna().astype(str).str.lower().unique())
uniq(df, target_column) ==
    {Lower(t) : t \in SeqToSet(Texts(DropNa(Column(df, target_column))))}

\* the row mask of execute
Mask(df, target_column, filter_value, nan_as_text) ==
    LET s == AsType_str(Column(df, target_column), nan_as_text)
        fv == Lower(filter_value)
    IN  [i \in 1..Len(df) |->
            IF fv \in uniq(df, target_column)
            THEN StrLowerEq(s[i], fv)
            ELSE StrContains(s[i], filter_value, FALSE)]

\* seq[mask]
RECURSIVE Where(_, _)
Where(seq, mask) ==
    IF seq = <<>> THEN <<>>
    ELSE LET n == Len(seq)
             r == Where(SubSeq(seq, 1, n - 1), SubSeq(mask, 1, n - 1))
         IN  IF mask[n] THEN Append(r, seq[n]) ELSE r

execute(df, target_column, filter_value, nan_as_text) ==
    LET mask == Mask(df, target_column, filter_value, nan_as_text)
        usubjids == Unique(Texts(DropNa(Where(Column(df, USUBJID), mask))))
    IN  [done |-> TRUE, count |-> Len(usubjids), usubjids |-> usubjids, mask |-> mask,
         exact |-> Lower(filter_value) \in uniq(df, target_column)]


\* ------------------------------------------------------------------------
\* Inputs: datasets, questions and collaborator outcomes
\* ------------------------------------------------------------------------
RowPool ==
    { Row(Cell(<<"S","1">>), Cell(<<"H","e","a","d","a","c","h","e">>), Cell(<<"E","y","e"
          >>), Cell(<<"M","I","L","D">>), NaN),
      Row(Cell(<<"S","1">>), NaN, NaN, Cell(<<"M","I","L","D">>), Cell(<<"R","a","s","h">>)),
      Row(NaN, Cell(<<"A","c","h","e">>), Cell(<<"S","k","i","n">>), NaN, Cell(<<"A","c","h","e"
            >>)) }

RECURSIVE SeqsUpTo(_, _)
SeqsUpTo(S, n) ==
    IF n = 0 THEN {<<>>}
    ELSE LET prev == SeqsUpTo(S, n - 1)
         IN  prev \cup {Append(p, x) : p \in prev, x \in S}

\* the datasets the loader may supply: at most MaxRows rows of the pool
Datasets == SeqsUpTo(RowPool, MaxRows)

Pieces ==
    { <<"R","a","s","h"," ","o","r"," ","H","e","a","d","a","c","h","e"," ">>,
      <<"A","E","D","E","C","O","D"," ","t","e","r","m"," ">>,
      <<"s","e","v","e","r","i","t","y"," ","\"">>,
      <<"\"","i","n"," ","{","a","}","\""," ">>,
      <<"A","E","S","O","C"," ","S","u","b","j","e","c","t"," ","I","D"," ">>,
      <<"l","i","s","t"," ","u","s","u","b","j","i","d","s"," ">> }

RECURSIVE Concats(_)
Concats(n) ==
    IF n = 0 THEN {<<>>}
    ELSE LET prev == Concats(n - 1)
         IN  prev \cup {p \o x : p \in prev, x \in Pieces}

\* the questions asked: at most MaxPieces pieces, concatenated
Questions == Concats(MaxPieces)

Reply(content) == [raises |-> FALSE, content |-> content]
LLMRaises == [raises |-> TRUE, content |-> <<>>]
NoCall == [raises |-> FALSE, content |-> <<>>]

\* what the collaborator may do with a prompt
LLMOutcomes ==
    { LLMRaises,
      Reply(<<"{","\"","t","a","r","g","e","t","_","c","o","l","u","m","n","\"",":"," ","\"","U",
            "S","U","B","J","I","D","\"",","," ","\"","f","i","l","t","e","r","_","v","a","l","u",
            "e","\"",":"," ","\"","n","a","\"","}">>),
      Reply(<<"S","u","r","e",":"," ","{","\"","t","a","r","g","e","t","_","c","o","l","u","m","n",
            "\"",":"," ","\""," ","A","E","S","E","V"," ","\"",","," ","\"","f","i","l","t","e","r",
            "_","v","a","l","u","e","\"",":"," ","\"","m","i","l","d","\"","}"," ","o","k">>),
      Reply(<<"{","\"","f","i","l","t","e","r","_","v","a","l","u","e","\"",":"," ","\"","a","c",
            "h","e","\"","}">>),
      Reply(<<"\"","{","x","}","\"">>),
      Reply(<<"n","o"," ","j","s","o","n">>) }

\* ------------------------------------------------------------------------
\* State
\* ------------------------------------------------------------------------
VARIABLES
    df,           \* the dataset, read once at start (line 5)
    use_llm,      \* self.use_llm, fixed by __init__
    nan_as_text,  \* the pandas build: astype(str) turns a missing value into text
    pc,           \* position in the question loop (lines 128-130)
    question,     \* the question of the current iteration
    llm,          \* the outcome of the collaborator call of parse_question
    mock,         \* the locals of the _mock_llm call of parse_question
    raw,          \* raw of parse_question
    parsed,       \* the return value of parse_question, or the exception raised
    result        \* the return value of execute, with its mask

vars == <<df, use_llm, nan_as_text, pc, question, llm, mock, raw, parsed, result>>

NoParsed == Raised("none")
NoResult == [done |-> FALSE, count |-> 0, usubjids |-> <<>>, mask |-> <<>>, exact |-> FALSE]

Init ==
    /\ df \in Datasets
    /\ use_llm \in BOOLEAN
    /\ nan_as_text \in BOOLEAN
    /\ pc = "ask"
    /\ question = <<>>
    /\ llm = NoCall
    /\ mock = NoMock
    /\ raw = <<>>
    /\ parsed = NoParsed
    /\ result = NoResult

\* parsed = agent.parse_question(q), line 129, with the collaborator
\* configured: an exception of the call leaves parse_question at line 57
ParseQuestionLLM ==
    /\ pc = "ask"
    /\ use_llm
    /\ \E q \in Questions, outcome \in LLMOutcomes :
        /\ question' = q
        /\ llm' = outcome
        /\ mock' = NoMock
        /\ raw' = IF outcome.raises THEN <<>> ELSE call_llm(outcome)
        /\ parsed' = IF outcome.raises THEN Raised("LLMError")
                     ELSE Interpret(q, call_llm(outcome))
    /\ pc' = IF parsed'.status = "ok" THEN "parsed" ELSE "raised"
    /\ UNCHANGED <<df, use_llm, nan_as_text, result>>

\* parsed = agent.parse_question(q), line 129, without a collaborator
ParseQuestionMock ==
    /\ pc = "ask"
    /\ ~use_llm
    /\ \E q \in Questions :
        LET r == mock_llm(df, q)
        IN  /\ question' = q
            /\ mock' = r
            /\ raw' = r.text
            /\ parsed' = Interpret(q, r.text)
    /\ pc' = IF parsed'.status = "ok" THEN "parsed" ELSE "raised"
    /\ UNCHANGED <<df, use_llm, nan_as_text, llm, result>>

\* n, ids = execute(ae, parsed["target_column"], parsed["filter_value"]), line 130
Execute ==
    /\ pc = "parsed"
    /\ result' = execute(df, parsed.target_column, parsed.filter_value, nan_as_text)
    /\ pc' = "executed"
    /\ UNCHANGED <<df, use_llm, nan_as_text, question, llm, mock, raw, parsed>>

\* the next iteration of the loop over the questions, line 128: nothing of
\* the previous question is kept
NextQuestion ==
    /\ pc = "executed"
    /\ pc' = "ask"
    /\ question' = <<>>
    /\ llm' = NoCall
    /\ mock' = NoMock
    /\ raw' = <<>>
    /\ parsed' = NoParsed
    /\ result' = NoResult
    /\ UNCHANGED <<df, use_llm, nan_as_text>>

Next == ParseQuestionLLM \/ ParseQuestionMock \/ Execute \/ NextQuestion

Spec == Init /\ [][Next]_vars


\* ------------------------------------------------------------------------
\* Properties
\* ------------------------------------------------------------------------
NonIdColumns == {AETERM, AESOC, AESEV, AEDECOD}
Returned == parsed.status = "ok"
ColumnTexts(col) == {df[i][col].text : i \in {k \in 1..Len(df) : ~df[k][col].na}}

\* C1: whichever path interprets the question, the target_column that
\* parse_question returns is AETERM, AESOC, AESEV or AEDECOD, or it is USUBJID and
\* the question contains "usubjid" or "subject id", whatever the case of its letters
C1_TargetColumnInSchema ==
    Returned =>
        \/ parsed.target_column \in NonIdColumns
        \/ /\ parsed.target_column = USUBJID
           /\ \/ Contains(Lower(question), <<"u","s","u","b","j","i","d">>)
              \/ Contains(Lower(question), <<"s","u","b","j","e","c","t"," ","i","d">>)

\* a reply naming USUBJID was accepted
C1_Witness == use_llm /\ Returned /\ parsed.target_column = USUBJID

\* C2: when the collaborator call raises, parse_question returns what the
\* fallback returns for the question
C2_LLMFailureFallsBack ==
    llm.raises => parsed = Interpret(question, mock_llm(df, question).text)

\* the rows C3 expects selected: with the filter equal to some non-missing
\* value, the rows of that value; else the rows whose value contains the filter
C3_Selected(i) ==
    LET col == parsed.target_column
        fv == Lower(parsed.filter_value)
        present == ~df[i][col].na
        text == Lower(df[i][col].text)
    IN  IF \E v \in ColumnTexts(col) : Lower(v) = fv
        THEN present /\ text = fv
        ELSE present /\ Contains(text, fv)

\* C3: execute selects the rows equal to the filter value when some non-missing
\* value equals it (case-insensitively), else the rows whose value contains it
C3_ExactThenPartial ==
    result.done => \A i \in 1..Len(df) : result.mask[i] = C3_Selected(i)

\* C4: the substring branch of execute never selects a row whose target value
\* is missing
C4_MissingNeverMatched ==
    (result.done /\ ~result.exact) =>
        \A i \in 1..Len(df) : df[i][parsed.target_column].na => ~result.mask[i]

\* C5: subject_ids holds no identifier twice and count is its length
C5_NoDuplicateIds ==
    result.done =>
        /\ \A i, j \in 1..Len(result.usubjids) :
               result.usubjids[i] = result.usubjids[j] => i = j
        /\ result.count = Len(result.usubjids)

\* two selected rows carry the same subject
C5_Witness ==
    /\ result.done
    /\ \E i, j \in 1..Len(df) :
        /\ i < j /\ result.mask[i] /\ result.mask[j]
        /\ ~df[i][USUBJID].na /\ df[i][USUBJID] = df[j][USUBJID]

\* C6: without a collaborator parse_question returns for every question: the
\* text of _mock_llm holds a brace-delimited substring that decodes to an object
\* with exactly the keys target_column and filter_value
C6_FallbackAlwaysParses ==
    mock.called =>
        /\ Returned
        /\ LET m == BraceSearch(raw)
               obj == JsonLoads(m.group0)
           IN  /\ m.found
               /\ obj.ok
               /\ obj.val.kind = "obj"
               /\ {obj.val.members[i][1] : i \in 1..Len(obj.val.members)}
                      = {<<"t","a","r","g","e","t","_","c","o","l","u","m","n">>, <<"f","i","l","t",
                            "e","r","_","v","a","l","u","e">>}

\* the fallback took a filter value with a brace in it from a question with quotes
C6_Witness ==
    mock.called /\ Returned /\ Contains(mock.filter_value, <<"}">>)
    /\ Contains(question, <<"\"">>)

Decoded == pc \in {"parsed", "raised", "executed"} /\ ~llm.raises

C8_Score(col) ==
    LET q == Lower(question)
    IN  Score(q, SeqToSet(FindAll(q, LowerAlnum)), col)

C8_Index(col) == CHOOSE i \in 1..Len(MAPPABLE_COLS) : MAPPABLE_COLS[i] = col

\* C8: _mock_llm selects, among AETERM, AESOC, AESEV and AEDECOD, the column of
\* the highest score, the earliest in schema order among equal scores, and
\* AETERM when every score is 0
C8_BestColumn ==
    mock.called =>
        LET score == [c \in NonIdColumns |-> C8_Score(c)]
            best == mock.best_col
        IN  /\ best \in NonIdColumns
            /\ \A c \in NonIdColumns :
                /\ score[c] <= score[best]
                /\ C8_Index(c) < C8_Index(best) => score[c] < score[best]
            /\ (\A c \in NonIdColumns : score[c] = 0) => best = AETERM

\* two columns share the highest score, which is not 0
C8_Witness ==
    /\ mock.called
    /\ C8_Score(mock.best_col) > 0
    /\ \E c \in NonIdColumns : c /= mock.best_col /\ C8_Score(c) = C8_Score(mock.best_col)

\* the non-empty values of the selected column that occur in the question
C9_Occurring ==
    {v \in ColumnTexts(mock.best_col) : v /= <<>> /\ Contains(Lower(question), Lower(v))}

C9_FirstRow(v) ==
    CHOOSE i \in 1..Len(df) :
        /\ df[i][mock.best_col] = Cell(v)
        /\ \A k \in 1..(i - 1) : df[k][mock.best_col] /= Cell(v)

\* C9: when values of the selected column occur in the question, filter_value is
\* one of them, none that occurs is longer, and none of the same length comes
\* earlier in the dataset
C9_LongestValue ==
    (mock.called /\ C9_Occurring /= {}) =>
        /\ mock.filter_value \in C9_Occurring
        /\ \A v \in C9_Occurring :
            /\ Len(v) <= Len(mock.filter_value)
            /\ Len(v) = Len(mock.filter_value)
                   => C9_FirstRow(mock.filter_value) <= C9_FirstRow(v)

\* a shorter value that occurs comes before the returned one in the dataset
C9_Witness ==
    /\ mock.called
    /\ \E v \in C9_Occurring :
        /\ Len(v) < Len(mock.filter_value)
        /\ C9_FirstRow(v) < C9_FirstRow(mock.filter_value)

C10_Tokens == FindAll(question, Alnum)

\* the last three tokens joined by single spaces, all of them when fewer
C10_LastThree ==
    LET t == C10_Tokens
        n == Len(t)
    IN  IF n = 0 THEN <<>>
        ELSE IF n = 1 THEN t[1]
        ELSE IF n = 2 THEN t[1] \o <<" ">> \o t[2]
        ELSE t[n - 2] \o <<" ">> \o t[n - 1] \o <<" ">> \o t[n]

C10_NoValueOccurs ==
    \A v \in ColumnTexts(mock.best_col) : ~Contains(Lower(question), Lower(v))

\* C10: when no value of the selected column occurs in the question,
\* filter_value is the content of the first double-quoted non-empty substring of
\* the question, or without one the last three tokens of the question
C10_QuotedElseLastTokens ==
    (mock.called /\ C10_NoValueOccurs) =>
        LET m == QuotedSearch(question)
        IN  mock.filter_value = (IF m.found THEN m.group1 ELSE C10_LastThree)

\* a question of more than three tokens, none quoted, no value occurring
C10_Witness ==
    /\ mock.called
    /\ C10_NoValueOccurs
    /\ ~QuotedSearch(question).found
    /\ Len(C10_Tokens) > 3
    /\ mock.filter_value = C10_LastThree

====
